---- MODULE Spec2Model ----
(***************************************************************************)
(* Model of gfwc (src/src/lib.rs, src/src/main.rs): a wc-like counter.     *)
(*                                                                         *)
(* A String is modelled as its UTF-8 byte sequence (integers 0..255), a    *)
(* char as its scalar value.  Readers (R: BufRead) are records with the    *)
(* data, a position and an optional one-shot I/O fault; Cursor::new gives  *)
(* a reader with no fault.                                                 *)
(***************************************************************************)
EXTENDS Integers, Sequences, FiniteSets, TLC

VARIABLES
    args,        \* main: env::args()
    config,      \* main: result of Config::build
    counter,     \* the Counter (count_type, file_path)
    mainPc,      \* main: position
    source,      \* bytes the input source (file or stdin) still holds
    reads,       \* number of read_input calls made (history)
    pc,          \* Counter::count: position of the calling thread
    input_data,  \* the buffer read_input returned
    handles,     \* the three JoinHandles / worker threads
    locals,      \* byte_count, line_count, word_count of count_all_from_input
    all_result,  \* return value of count_all_from_input
    ret,         \* return value of Counter::count
    output,      \* what println! wrote
    reader,      \* the reader handed to a scan run on its own
    scan,        \* loop state of count_bytes_from_reader run on its own
    scanKind,    \* which scan is run on its own
    scanRes      \* its result

vars == <<args, config, counter, mainPc, source, reads, pc, input_data, handles,
          locals, all_result, ret, output, reader, scan, scanKind, scanRes>>

mainVars == <<args, config, counter, mainPc>>
countVars == <<source, reads, pc, input_data, handles, locals, all_result, ret, output>>
scanVars == <<reader, scan, scanKind, scanRes>>

(***************************************************************************)
(* Bounds                                                                  *)
(***************************************************************************)
MaxLen == 3        \* longest input, in chars
MaxArgs == 3       \* most arguments after the program name
MaxChunks == 2     \* longest byte-count input, in whole chunks (plus a remainder)

ChunkSize == 1024  \* let mut buffer = [0; 1024]

Min(a, b) == IF a < b THEN a ELSE b

(***************************************************************************)
(* Result and Option                                                       *)
(***************************************************************************)
Ok(v) == [ok |-> TRUE, val |-> v, err |-> ""]
Err(e) == [ok |-> FALSE, val |-> 0, err |-> e]
NoRes == [ok |-> FALSE, val |-> 0, err |-> "none"]
OkTriple(t) == [ok |-> TRUE, val |-> t, err |-> ""]
ErrTriple(e) == [ok |-> FALSE, val |-> <<>>, err |-> e]
NoTriple == [ok |-> FALSE, val |-> <<>>, err |-> "none"]
Some(v) == [some |-> TRUE, val |-> v]
None == [some |-> FALSE, val |-> <<>>]

(***************************************************************************)
(* Text: chars, UTF-8                                                      *)
(***************************************************************************)
NL == 10
CR == 13
Globe == 127757    \* U+1F30D, four bytes in UTF-8
Alphabet == {97, 44, 32, 9, NL, CR, Globe}

\* char::is_whitespace (Unicode White_Space)
is_whitespace(c) ==
    \/ c \in 9..13
    \/ c \in {32, 133, 160, 5760, 8232, 8233, 8239, 8287, 12288}
    \/ c \in 8192..8202

\* char::encode_utf8
encode_utf8(c) ==
    IF c < 128 THEN <<c>>
    ELSE IF c < 2048 THEN <<192 + (c \div 64), 128 + (c % 64)>>
    ELSE IF c < 65536 THEN <<224 + (c \div 4096), 128 + ((c \div 64) % 64), 128 + (c % 64)>>
    ELSE <<240 + (c \div 262144), 128 + ((c \div 4096) % 64),
           128 + ((c \div 64) % 64), 128 + (c % 64)>>

RECURSIVE EncodeStr(_)
EncodeStr(cs) == IF cs = <<>> THEN <<>> ELSE encode_utf8(Head(cs)) \o EncodeStr(Tail(cs))

\* width of the UTF-8 sequence a leading byte announces (0: not a leading byte)
utf8_char_width(b) ==
    IF b < 128 THEN 1
    ELSE IF b \in 194..223 THEN 2
    ELSE IF b \in 224..239 THEN 3
    ELSE IF b \in 240..244 THEN 4
    ELSE 0

\* str::from_utf8 followed by chars(): the scalar values, or not ok
RECURSIVE from_utf8(_)
from_utf8(b) ==
    IF b = <<>> THEN [ok |-> TRUE, chars |-> <<>>]
    ELSE LET w == utf8_char_width(b[1]) IN
         IF w = 0 \/ w > Len(b) \/ \E i \in 2..w : b[i] \notin 128..191
         THEN [ok |-> FALSE, chars |-> <<>>]
         ELSE LET c == IF w = 1 THEN b[1]
                       ELSE IF w = 2 THEN (b[1] - 192) * 64 + (b[2] - 128)
                       ELSE IF w = 3 THEN (b[1] - 224) * 4096 + (b[2] - 128) * 64 + (b[3] - 128)
                       ELSE (b[1] - 240) * 262144 + (b[2] - 128) * 4096
                            + (b[3] - 128) * 64 + (b[4] - 128)
                  rest == from_utf8(SubSeq(b, w + 1, Len(b)))
              IN IF rest.ok THEN [ok |-> TRUE, chars |-> <<c>> \o rest.chars]
                 ELSE rest

\* str::chars
chars(b) == from_utf8(b).chars

\* str::split_whitespace().count(), a single pass that counts word starts
RECURSIVE split_ws_from(_, _, _)
split_ws_from(cs, i, inWord) ==
    IF i > Len(cs) THEN 0
    ELSE IF is_whitespace(cs[i]) THEN split_ws_from(cs, i + 1, FALSE)
    ELSE (IF inWord THEN 0 ELSE 1) + split_ws_from(cs, i + 1, TRUE)

split_whitespace_count(b) == split_ws_from(chars(b), 1, FALSE)

(***************************************************************************)
(* Readers                                                                 *)
(***************************************************************************)
NoFail == -1

\* Cursor::new(input_data.as_str())
Cursor(data) == [data |-> data, pos |-> 0, failAt |-> NoFail]

\* the bytes a reader can hand out before end-of-stream or its fault
avail_end(r) == IF r.failAt > r.pos THEN r.failAt ELSE Len(r.data)

\* Read::read(&mut buf) with buf.len() = n
read(r, n) ==
    IF r.failAt = r.pos
    THEN [res |-> Err("io"), reader |-> [r EXCEPT !.failAt = NoFail]]
    ELSE LET k == Min(n, avail_end(r) - r.pos)
         IN [res |-> Ok(k), reader |-> [r EXCEPT !.pos = r.pos + k]]

\* BufRead::read_until(b'\n', &mut buf)
RECURSIVE read_until(_, _)
read_until(r, buf) ==
    IF r.failAt = r.pos
    THEN [ok |-> FALSE, buf |-> buf, reader |-> [r EXCEPT !.failAt = NoFail]]
    ELSE LET lim == avail_end(r)
             hits == {i \in (r.pos + 1)..lim : r.data[i] = NL}
         IN IF lim = r.pos THEN [ok |-> TRUE, buf |-> buf, reader |-> r]
            ELSE IF hits # {}
            THEN LET i == CHOOSE j \in hits : \A h \in hits : j <= h
                 IN [ok |-> TRUE, buf |-> buf \o SubSeq(r.data, r.pos + 1, i),
                     reader |-> [r EXCEPT !.pos = i]]
            ELSE read_until([r EXCEPT !.pos = lim], buf \o SubSeq(r.data, r.pos + 1, lim))

\* the line without its "\n" or "\r\n"
strip_newline(b) ==
    IF b # <<>> /\ b[Len(b)] = NL
    THEN IF Len(b) >= 2 /\ b[Len(b) - 1] = CR THEN SubSeq(b, 1, Len(b) - 2)
         ELSE SubSeq(b, 1, Len(b) - 1)
    ELSE b

\* BufRead::lines(): the items the iterator yields, an Err item for a failed
\* read_line (read error or invalid UTF-8)
RECURSIVE lines(_)
lines(r) ==
    LET ru == read_until(r, <<>>) IN
    IF ~ru.ok THEN <<[ok |-> FALSE, line |-> <<>>]>> \o lines(ru.reader)
    ELSE IF ru.buf = <<>> THEN <<>>
    ELSE IF ~from_utf8(ru.buf).ok THEN <<[ok |-> FALSE, line |-> <<>>]>> \o lines(ru.reader)
    ELSE <<[ok |-> TRUE, line |-> strip_newline(ru.buf)]>> \o lines(ru.reader)

\* Read::read_to_string(&mut buffer)
read_to_string(r) ==
    IF r.failAt # NoFail
    THEN [res |-> Err("io"), buf |-> <<>>, reader |-> [r EXCEPT !.pos = r.failAt, !.failAt = NoFail]]
    ELSE LET rest == SubSeq(r.data, r.pos + 1, Len(r.data)) IN
         IF ~from_utf8(rest).ok
         THEN [res |-> Err("utf8"), buf |-> <<>>, reader |-> [r EXCEPT !.pos = Len(r.data)]]
         ELSE [res |-> Ok(Len(rest)), buf |-> rest, reader |-> [r EXCEPT !.pos = Len(r.data)]]

(***************************************************************************)
(* The four scans                                                          *)
(***************************************************************************)
\* variant: a read shorter than the buffer is taken for the end of the stream
bytes_loop_step_short(st) ==
    LET rr == read(st.reader, ChunkSize) IN
    IF ~rr.res.ok THEN [st EXCEPT !.reader = rr.reader, !.done = TRUE]
    ELSE IF rr.res.val < ChunkSize THEN [st EXCEPT !.reader = rr.reader, !.done = TRUE]
    ELSE [st EXCEPT !.reader = rr.reader, !.total_bytes = st.total_bytes + rr.res.val]

\* one iteration of the while-let loop of count_bytes_from_reader
bytes_loop_step(st) ==
    LET rr == read(st.reader, ChunkSize) IN
    IF ~rr.res.ok THEN [st EXCEPT !.reader = rr.reader, !.done = TRUE]
    ELSE IF rr.res.val = 0 THEN [st EXCEPT !.reader = rr.reader, !.done = TRUE]
    ELSE [st EXCEPT !.reader = rr.reader, !.total_bytes = st.total_bytes + rr.res.val]

bytes_loop_init(r) == [reader |-> r, total_bytes |-> 0, done |-> FALSE]

RECURSIVE bytes_loop(_)
bytes_loop(st) == IF st.done THEN st ELSE bytes_loop(bytes_loop_step(st))

count_bytes_from_reader(r) == Ok(bytes_loop(bytes_loop_init(r)).total_bytes)

\* variant: counts the line terminators
count_lines_terminators(r) ==
    Ok(Cardinality({i \in (r.pos + 1)..Len(r.data) : r.data[i] = NL}))

count_lines_from_reader(r) == Ok(Len(lines(r)))

RECURSIVE words_loop(_, _)
words_loop(items, count) ==
    IF items = <<>> THEN Ok(count)
    ELSE IF ~Head(items).ok THEN Err("io")
    ELSE words_loop(Tail(items), count + split_whitespace_count(Head(items).line))

\* variant: each line is split on single spaces
RECURSIVE words_loop_spaces(_, _)
words_loop_spaces(items, count) ==
    IF items = <<>> THEN Ok(count)
    ELSE IF ~Head(items).ok THEN Err("io")
    ELSE LET l == Head(items).line IN
         words_loop_spaces(Tail(items), count + 1 + Cardinality({i \in 1..Len(l) : l[i] = 32}))

count_words_split_spaces(r) == words_loop_spaces(lines(r), 0)

count_words_from_reader(r) == words_loop(lines(r), 0)

RECURSIVE chars_loop(_, _)
chars_loop(r, total_chars) ==
    LET rs == read_to_string(r) IN
    IF ~rs.res.ok THEN Err(rs.res.err)
    ELSE IF rs.res.val > 0 THEN chars_loop(rs.reader, total_chars + Len(chars(rs.buf)))
    ELSE Ok(total_chars)

count_chars_from_reader(r) == chars_loop(r, 0)

(***************************************************************************)
(* Inputs                                                                  *)
(***************************************************************************)
\* every String of at most MaxLen chars over the alphabet
Sources == {EncodeStr(cs) : cs \in UNION {[1..k -> Alphabet] : k \in 0..MaxLen}}

\* every reader over such a String: an in-memory Cursor, or a stream whose
\* read at byte offset failAt fails once with an I/O error
Readers ==
    UNION {{[data |-> d, pos |-> 0, failAt |-> f] : f \in {NoFail} \cup (0..Len(d))}
           : d \in Sources}

ScanKinds == {"bytes", "lines", "words", "chars"}

Workers == {"byte", "line", "word"}

IdleMain ==
    /\ args = <<>>
    /\ config = [ok |-> FALSE, count_type |-> "", file_path |-> None, err |-> "none"]
    /\ mainPc = "idle"

IdleCount ==
    /\ source = <<>>
    /\ reads = 0
    /\ pc = "idle"
    /\ input_data = None
    /\ handles = [w \in Workers |-> [state |-> "unspawned", view |-> Cursor(<<>>), res |-> NoRes]]
    /\ locals = [byte_count |-> 0, line_count |-> 0, word_count |-> 0]
    /\ all_result = NoTriple
    /\ ret = NoRes
    /\ output = <<>>

NoCounter == [count_type |-> "", file_path |-> None]

(***************************************************************************)
(* SpecScan: each scan run on its own over any reader                      *)
(***************************************************************************)
InitScan ==
    /\ IdleMain /\ IdleCount /\ counter = NoCounter
    /\ reader \in Readers
    /\ scanKind \in ScanKinds
    /\ scan = bytes_loop_init(Cursor(<<>>))
    /\ scanRes = NoRes

RunBytes ==
    /\ scanKind = "bytes" /\ scanRes = NoRes
    /\ scanRes' = count_bytes_from_reader(reader)
    /\ UNCHANGED <<mainVars, countVars, reader, scan, scanKind>>

RunLines ==
    /\ scanKind = "lines" /\ scanRes = NoRes
    /\ scanRes' = count_lines_from_reader(reader)
    /\ UNCHANGED <<mainVars, countVars, reader, scan, scanKind>>

RunWords ==
    /\ scanKind = "words" /\ scanRes = NoRes
    /\ scanRes' = count_words_from_reader(reader)
    /\ UNCHANGED <<mainVars, countVars, reader, scan, scanKind>>

RunChars ==
    /\ scanKind = "chars" /\ scanRes = NoRes
    /\ scanRes' = count_chars_from_reader(reader)
    /\ UNCHANGED <<mainVars, countVars, reader, scan, scanKind>>

NextScan == RunBytes \/ RunLines \/ RunWords \/ RunChars

SpecScan == InitScan /\ [][NextScan]_vars

(***************************************************************************)
(* SpecBytes: the read loop of count_bytes_from_reader, one read per step, *)
(* over in-memory inputs longer than the chunk                             *)
(***************************************************************************)
MaxBytes == MaxChunks * ChunkSize + 1

InitBytes ==
    /\ IdleMain /\ IdleCount /\ counter = NoCounter
    /\ \E n \in 0..MaxBytes : reader = Cursor([i \in 1..n |-> 97])
    /\ scanKind = "bytes"
    /\ scan = bytes_loop_init(reader)
    /\ scanRes = NoRes

BytesIter ==
    /\ scanRes = NoRes /\ ~scan.done
    /\ scan' = bytes_loop_step(scan)
    /\ UNCHANGED <<mainVars, countVars, reader, scanKind, scanRes>>

BytesReturn ==
    /\ scanRes = NoRes /\ scan.done
    /\ scanRes' = Ok(scan.total_bytes)
    /\ UNCHANGED <<mainVars, countVars, reader, scanKind, scan>>

NextBytes == BytesIter \/ BytesReturn

SpecBytes == InitBytes /\ [][NextBytes]_vars /\ WF_vars(NextBytes)

(***************************************************************************)
(* Config::build and main                                                  *)
(***************************************************************************)
CountTypes == {"ByteCount", "CharCount", "WordCount", "LineCount", "AllCount"}

\* str::starts_with('-')
starts_with_dash(arg) == arg # <<>> /\ arg[1] = "-"

\* variant: the arms for 'l' and 'w' exchanged
_parse_type_swapped(arg) ==
    IF arg = <<>> THEN None
    ELSE LET last == arg[Len(arg)] IN
         IF last = "c" THEN Some("ByteCount")
         ELSE IF last = "l" THEN Some("WordCount")
         ELSE IF last = "w" THEN Some("LineCount")
         ELSE IF last = "m" THEN Some("CharCount")
         ELSE None

_parse_type(arg) ==
    IF arg = <<>> THEN None
    ELSE LET last == arg[Len(arg)] IN
         IF last = "c" THEN Some("ByteCount")
         ELSE IF last = "l" THEN Some("LineCount")
         ELSE IF last = "w" THEN Some("WordCount")
         ELSE IF last = "m" THEN Some("CharCount")
         ELSE None

ConfigOk(t, p) == [ok |-> TRUE, count_type |-> t, file_path |-> p, err |-> ""]
ConfigErr(e) == [ok |-> FALSE, count_type |-> "", file_path |-> None, err |-> e]
NoConfig == ConfigErr("none")

\* args[k] of the source is a[k + 1] here
build(a) ==
    IF Len(a) = 1 THEN ConfigOk("AllCount", None)
    ELSE IF Len(a) = 2 /\ ~starts_with_dash(a[2]) THEN ConfigOk("AllCount", Some(a[2]))
    ELSE IF Len(a) >= 3 /\ starts_with_dash(a[2])
    THEN LET t == _parse_type(a[2]) IN
         IF t.some THEN ConfigOk(t.val, Some(a[3])) ELSE ConfigErr("Invalid flag")
    ELSE IF Len(a) = 2 /\ starts_with_dash(a[2])
    THEN LET t == _parse_type(a[2]) IN
         IF t.some THEN ConfigOk(t.val, None) ELSE ConfigErr("Invalid flag")
    ELSE ConfigErr("Incorrect usage")

get_count_type(c) == c.count_type
get_file_path(c) == c.file_path

\* impl From<Config> for Counter
from(c) == [count_type |-> get_count_type(c), file_path |-> get_file_path(c)]

\* the arguments tried: flags, malformed flags, paths, the empty string
ArgTokens ==
    {<<>>, <<"-">>, <<"-", "c">>, <<"-", "l">>, <<"-", "w">>, <<"-", "m">>,
     <<"-", "z">>, <<"-", "z", "c">>, <<"f">>, <<"c">>}

ProgName == <<"p">>

ArgLists == {<<ProgName>> \o rest : rest \in UNION {[1..k -> ArgTokens] : k \in 0..MaxArgs}}

IdleScan ==
    /\ reader = Cursor(<<>>)
    /\ scanKind = "none"
    /\ scan = bytes_loop_init(Cursor(<<>>))
    /\ scanRes = NoRes

InitConfig ==
    /\ args \in ArgLists
    /\ config = NoConfig
    /\ counter = NoCounter
    /\ mainPc = "build"
    /\ IdleCount /\ IdleScan

\* main.rs: Config::build(&args).unwrap_or_else(.. process::exit(1))
MainBuild ==
    /\ mainPc = "build"
    /\ config' = build(args)
    /\ mainPc' = IF config'.ok THEN "from" ELSE "exit1"
    /\ UNCHANGED <<args, counter, countVars, scanVars>>

\* main.rs: Counter::from(config)
MainFrom ==
    /\ mainPc = "from"
    /\ counter' = from(config)
    /\ mainPc' = "count"
    /\ UNCHANGED <<args, config, countVars, scanVars>>

NextConfig == MainBuild \/ MainFrom

SpecConfig == InitConfig /\ [][NextConfig]_vars

(***************************************************************************)
(* Counter::count                                                          *)
(***************************************************************************)
Counters == {[count_type |-> t, file_path |-> p] : t \in CountTypes, p \in {None, Some(<<"f">>)}}

Init ==
    /\ IdleMain /\ IdleScan
    /\ counter \in Counters
    /\ source \in Sources
    /\ reads = 0
    /\ pc = "count"
    /\ input_data = None
    /\ handles = [w \in Workers |-> [state |-> "unspawned", view |-> Cursor(<<>>), res |-> NoRes]]
    /\ locals = [byte_count |-> 0, line_count |-> 0, word_count |-> 0]
    /\ all_result = NoTriple
    /\ ret = NoRes
    /\ output = <<>>

\* the outcomes of read_input: the whole source as one String, or an I/O
\* error (open fails, read fails, invalid UTF-8)
read_input(src) == {[ok |-> TRUE, buf |-> src], [ok |-> FALSE, buf |-> <<>>]}

\* what is left in the source after it was read to its end: a file keeps its
\* content, standard input is drained
after_read(c, src) == IF c.file_path.some THEN src ELSE <<>>

\* let filename = ...
filename(c) == IF c.file_path.some THEN c.file_path.val ELSE <<>>

\* count_all up to the call of count_all_from_input
CountAll ==
    /\ pc = "count" /\ counter.count_type = "AllCount"
    /\ \E r \in read_input(source) :
         /\ reads' = reads + 1
         /\ IF r.ok
            THEN /\ input_data' = Some(r.buf)
                 /\ source' = after_read(counter, source)
                 /\ pc' = "spawn_byte"
                 /\ ret' = ret
            ELSE /\ ret' = Err("io")
                 /\ pc' = "done"
                 /\ UNCHANGED <<input_data, source>>
    /\ UNCHANGED <<mainVars, handles, locals, all_result, output, scanVars>>

\* thread::spawn with a clone of the Arc and a Cursor of its own
Spawn(w, next) ==
    /\ handles' = [handles EXCEPT ![w] =
                      [state |-> "running", view |-> Cursor(input_data.val), res |-> NoRes]]
    /\ pc' = next
    /\ UNCHANGED <<mainVars, source, reads, input_data, locals, all_result, ret, output, scanVars>>

SpawnByte == pc = "spawn_byte" /\ Spawn("byte", "spawn_line")
SpawnLine == pc = "spawn_line" /\ Spawn("line", "spawn_word")
SpawnWord == pc = "spawn_word" /\ Spawn("word", "join_byte")

\* variant: the line worker's closure calls the word scan
WorkerScanCopied(w, view) ==
    IF w = "byte" THEN count_bytes_from_reader(view)
    ELSE count_words_from_reader(view)

\* the closure each worker runs
WorkerScan(w, view) ==
    IF w = "byte" THEN count_bytes_from_reader(view)
    ELSE IF w = "line" THEN count_lines_from_reader(view)
    ELSE count_words_from_reader(view)

\* variant: each worker reads the input source itself
WorkerRunRereads(w) ==
    /\ handles[w].state = "running"
    /\ reads' = reads + 1
    /\ source' = after_read(counter, source)
    /\ handles' = [handles EXCEPT ![w].state = "done",
                                  ![w].view = Cursor(source),
                                  ![w].res = WorkerScan(w, Cursor(source))]
    /\ UNCHANGED <<mainVars, pc, input_data, locals, all_result, ret, output, scanVars>>

\* a worker thread runs its closure to the end
WorkerRun(w) ==
    /\ handles[w].state = "running"
    /\ handles' = [handles EXCEPT ![w].state = "done",
                                  ![w].res = WorkerScan(w, handles[w].view)]
    /\ UNCHANGED <<mainVars, source, reads, pc, input_data, locals, all_result, ret, output,
                   scanVars>>

\* handle.join().unwrap()? : blocks until the worker is done; an Err returns
\* from count_all_from_input, count_all and count at once
Join(w, field, next) ==
    /\ handles[w].state = "done"
    /\ IF handles[w].res.ok
       THEN /\ locals' = [locals EXCEPT ![field] = handles[w].res.val]
            /\ pc' = next
            /\ UNCHANGED <<all_result, ret>>
       ELSE /\ all_result' = ErrTriple(handles[w].res.err)
            /\ ret' = Err(handles[w].res.err)
            /\ pc' = "done"
            /\ UNCHANGED locals
    /\ UNCHANGED <<mainVars, source, reads, input_data, handles, output, scanVars>>

JoinByte == pc = "join_byte" /\ Join("byte", "byte_count", "join_line")
JoinLine == pc = "join_line" /\ Join("line", "line_count", "join_word")
JoinWord == pc = "join_word" /\ Join("word", "word_count", "ret_all")

\* variant: the tuple in the order the line is printed in
AllReturnPrintOrder ==
    /\ pc = "ret_all"
    /\ all_result' = OkTriple(<<locals.line_count, locals.word_count, locals.byte_count>>)
    /\ pc' = "print_all"
    /\ UNCHANGED <<mainVars, source, reads, input_data, handles, locals, ret, output, scanVars>>

\* Ok((byte_count, line_count, word_count))
AllReturn ==
    /\ pc = "ret_all"
    /\ all_result' = OkTriple(<<locals.byte_count, locals.line_count, locals.word_count>>)
    /\ pc' = "print_all"
    /\ UNCHANGED <<mainVars, source, reads, input_data, handles, locals, ret, output, scanVars>>

\* println!("{}\t{}\t{} {}", line_count, word_count, byte_count, filename)
PrintAll ==
    /\ pc = "print_all"
    /\ output' = <<[fields |-> <<all_result.val[2], all_result.val[3], all_result.val[1]>>,
                    label |-> filename(counter)]>>
    /\ ret' = Ok(0)
    /\ pc' = "done"
    /\ UNCHANGED <<mainVars, source, reads, input_data, handles, locals, all_result, scanVars>>

SingleScan(t, r) ==
    IF t = "ByteCount" THEN count_bytes_from_reader(r)
    ELSE IF t = "LineCount" THEN count_lines_from_reader(r)
    ELSE IF t = "WordCount" THEN count_words_from_reader(r)
    ELSE count_chars_from_reader(r)

\* a single-mode arm of count: read_input, the one scan, println!
CountSingle(t) ==
    /\ pc = "count" /\ counter.count_type = t
    /\ \E r \in read_input(source) :
         /\ reads' = reads + 1
         /\ pc' = "done"
         /\ IF r.ok
            THEN LET c == SingleScan(t, Cursor(r.buf)) IN
                 /\ input_data' = Some(r.buf)
                 /\ source' = after_read(counter, source)
                 /\ IF c.ok
                    THEN /\ output' = <<[fields |-> <<c.val>>, label |-> filename(counter)]>>
                         /\ ret' = Ok(0)
                    ELSE /\ ret' = Err(c.err)
                         /\ output' = output
            ELSE /\ ret' = Err("io")
                 /\ UNCHANGED <<input_data, source, output>>
    /\ UNCHANGED <<mainVars, handles, locals, all_result, scanVars>>

CountBytes == CountSingle("ByteCount")
CountLines == CountSingle("LineCount")
CountWords == CountSingle("WordCount")
CountChars == CountSingle("CharCount")

Next ==
    \/ CountAll
    \/ SpawnByte \/ SpawnLine \/ SpawnWord
    \/ \E w \in Workers : WorkerRun(w)
    \/ JoinByte \/ JoinLine \/ JoinWord
    \/ AllReturn \/ PrintAll
    \/ CountBytes \/ CountLines \/ CountWords \/ CountChars

Spec == Init /\ [][Next]_vars

(***************************************************************************)
(* Reference counts, stated on the text and not on the reader              *)
(***************************************************************************)
\* segments delimited by line terminators; a final unterminated segment counts
LineSegments(b) ==
    Cardinality({i \in 1..Len(b) : b[i] = NL})
    + (IF b # <<>> /\ b[Len(b)] # NL THEN 1 ELSE 0)

\* maximal runs of non-whitespace chars
MaximalRuns(cs) ==
    Cardinality({i \in 1..Len(cs) :
        /\ ~is_whitespace(cs[i])
        /\ (i = 1 \/ is_whitespace(cs[i - 1]))})

ScanDone == scanRes # NoRes
InMemory == reader.failAt = NoFail

\* C7: for every input string, count_lines_from_reader gives the number of
\* line-terminator-delimited segments: a final segment without a terminator
\* counts when it is non-empty, a final terminator adds no line, empty gives 0.
C7_LineCountIsSegments ==
    (scanKind = "lines" /\ ScanDone /\ InMemory) => scanRes = Ok(LineSegments(reader.data))

C7_Witness ==
    /\ scanKind = "lines" /\ ScanDone /\ InMemory
    /\ reader.data = <<97, NL, 97>>
    /\ scanRes = Ok(2)

\* C8: for every input string, count_words_from_reader gives the number of
\* maximal runs of non-whitespace chars of the whole input, whichever
\* whitespace char separates them; whitespace-only and empty input give 0.
C8_WordCountIsMaximalRuns ==
    (scanKind = "words" /\ ScanDone /\ InMemory) => scanRes = Ok(MaximalRuns(chars(reader.data)))

C8_Witness ==
    /\ scanKind = "words" /\ ScanDone /\ InMemory
    /\ reader.data = <<97, NL, 44>>
    /\ scanRes = Ok(2)

\* C4: a scan over a stream whose read fails part-way returns that error,
\* never Ok with a count.
C4_ReadErrorIsReturned ==
    (ScanDone /\ ~InMemory) => ~scanRes.ok

\* C9: count_bytes_from_reader over an in-memory input of N bytes reads whole
\* chunks in sequence, stops at the first zero-length read, terminates and
\* returns exactly N.
C9_ByteLoopInv ==
    /\ scan.total_bytes = scan.reader.pos
    /\ scan.reader.pos <= Len(reader.data)
    /\ scan.reader.pos % ChunkSize = 0 \/ scan.reader.pos = Len(reader.data)
    /\ scan.done => scan.reader.pos = Len(reader.data)
    /\ ScanDone => scan.done /\ scanRes = Ok(Len(reader.data))

C9_ByteCountIsLength == []C9_ByteLoopInv /\ <>ScanDone

C9_Witness ==
    /\ ScanDone
    /\ Len(reader.data) = 2 * ChunkSize + 1
    /\ scanRes = Ok(2 * ChunkSize + 1)

(***************************************************************************)
(* Properties of Counter::count (Spec)                                     *)
(***************************************************************************)
AllDone == \A w \in Workers : handles[w].state = "done"

\* the three single scans, each run alone on the buffer
SequentialScans(b) ==
    <<SingleScan("ByteCount", Cursor(b)), SingleScan("LineCount", Cursor(b)),
      SingleScan("WordCount", Cursor(b))>>

\* C1: under every interleaving of the three workers, the triple returned by
\* count_all_from_input has the components the three scans return when run
\* alone and in sequence on the same buffer.
C1_AllEqualsSequential ==
    all_result.ok =>
        LET seq == SequentialScans(input_data.val) IN
        /\ \A i \in 1..3 : seq[i].ok
        /\ all_result.val = <<seq[1].val, seq[2].val, seq[3].val>>

C1_Witness ==
    /\ pc = "done" /\ ret.ok
    /\ input_data.val = EncodeStr(<<Globe, 32, 97>>)
    /\ all_result = OkTriple(<<6, 1, 2>>)

\* C2: in every invocation of count, whatever the mode, read_input is called
\* at most once (exactly once when count has gone past it), one buffer is
\* made, and every spawned worker scans that buffer.
C2_ReadOnce ==
    /\ reads <= 1
    /\ pc # "count" => reads = 1
    /\ input_data.some => reads = 1
    /\ \A w \in Workers :
         handles[w].state # "unspawned" =>
            /\ input_data.some
            /\ handles[w].view.data = input_data.val

C2_Witness ==
    /\ pc = "done" /\ ret.ok /\ reads = 1
    /\ counter.count_type = "AllCount" /\ ~counter.file_path.some
    /\ AllDone
    /\ input_data.val = <<97, NL, 97>>

\* C3: when a worker of count_all_from_input returns an error, the combined
\* result is an error and never an Ok triple.  (No worker returns an error
\* over an in-memory Cursor: NoWorkerErr.)
C3_WorkerErrFailsAll ==
    (all_result # NoTriple /\ \E w \in Workers : handles[w].state = "done" /\ ~handles[w].res.ok)
        => ~all_result.ok

NoWorkerErr == \A w \in Workers : handles[w].state = "done" => handles[w].res.ok

\* C10: count_all_from_input returns only after all three workers have
\* completed, and the triple is (bytes, lines, words) of the byte, line and
\* word worker, whichever finished first.
C10_JoinBarrierAndOrder ==
    /\ (all_result # NoTriple \/ pc \in {"ret_all", "print_all"}) => AllDone
    /\ (pc = "done" /\ counter.count_type = "AllCount" /\ input_data.some) => AllDone
    /\ all_result.ok =>
          all_result.val = <<handles["byte"].res.val, handles["line"].res.val,
                             handles["word"].res.val>>

C10_Witness ==
    /\ pc = "print_all" /\ AllDone
    /\ input_data.val = <<97, 32, 97>>
    /\ all_result = OkTriple(<<3, 1, 2>>)

(***************************************************************************)
(* Properties of Config::build (SpecConfig)                                *)
(***************************************************************************)
FlagTable == [f \in {"c", "l", "w", "m"} |->
                IF f = "c" THEN "ByteCount" ELSE IF f = "l" THEN "LineCount"
                ELSE IF f = "w" THEN "WordCount" ELSE "CharCount"]

IsFlag(a) == Len(a) = 2 /\ a[1] = "-" /\ a[2] \in DOMAIN FlagTable
IsPath(a) == a # <<>> /\ a[1] # "-"

WellFormed(a) ==
    \/ Len(a) = 1
    \/ Len(a) = 2 /\ (IsPath(a[2]) \/ IsFlag(a[2]))
    \/ Len(a) = 3 /\ IsFlag(a[2]) /\ IsPath(a[3])

ExpectedMode(a) == IF Len(a) >= 2 /\ IsFlag(a[2]) THEN FlagTable[a[2][2]] ELSE "AllCount"

ExpectedPath(a) ==
    IF Len(a) = 3 THEN Some(a[3])
    ELSE IF Len(a) = 2 /\ IsPath(a[2]) THEN Some(a[2])
    ELSE None

\* a malformed or unrecognized flag, too many arguments, or a path where the
\* flag is expected
Malformed(a) ==
    \/ Len(a) >= 2 /\ a[2] # <<>> /\ a[2][1] = "-" /\ ~IsFlag(a[2])
    \/ Len(a) > 3
    \/ Len(a) = 3 /\ IsPath(a[2])

Built == mainPc # "build"

\* C6: for every well-formed argument list Config::build gives the mode and
\* path of the flag table, and Counter::from carries both over unchanged.
C6_BuildFollowsFlagTable ==
    (Built /\ WellFormed(args)) =>
        /\ config = ConfigOk(ExpectedMode(args), ExpectedPath(args))
        /\ mainPc = "count" =>
              counter = [count_type |-> ExpectedMode(args), file_path |-> ExpectedPath(args)]

C6_Witness ==
    /\ mainPc = "count"
    /\ args = <<ProgName, <<"-", "l">>, <<"f">>>>
    /\ counter = [count_type |-> "LineCount", file_path |-> Some(<<"f">>)]

\* C5: for every argument list with a malformed or unrecognized flag or a
\* wrong argument count or shape, Config::build returns an error and no
\* Counter is built.
C5_MalformedIsRejected ==
    (Built /\ Malformed(args)) => (~config.ok /\ mainPc = "exit1" /\ counter = NoCounter)

====
